---- MODULE Spec2Model ----
(***************************************************************************)
(* Model of plugins/sudoers/regress/fuzz/fuzz_policy.c: the fuzz harness   *)
(* that decodes a byte buffer into lines, classifies every line into one   *)
(* of five dynamic arrays, drives the sudoers policy plugin through        *)
(* open / check_policy / close and resets the process-wide state.          *)
(***************************************************************************)
EXTENDS Integers, Sequences, FiniteSets, TLC

VARIABLES
    pc,           \* position of LLVMFuzzerTestOneInput
    iter,         \* number of iterations that have returned
    data,         \* the input buffer of the current iteration
    fp,           \* the stream: its state and the bytes not yet read
    line,         \* the getdelim buffer after newline stripping
    plugin_args, settings, user_info, argv, env_add,   \* the five arrays
    res,          \* value returned by sudoers_policy.open
    close_fn,     \* TRUE when sudoers_policy.close is not NULL
    sudo_user,    \* the process-wide user record
    calls,        \* plugin calls made by the current iteration, in order
    pushes,       \* push calls made by the current iteration, in order
    cleanup,      \* steps taken by the cleanup code of the current iteration
    nfail,        \* allocation failures injected so far in this iteration
    arr,          \* a single dynamic array driven by push alone
    pushed,       \* the non-null entries pushed to arr with success
    last,         \* the last push call on arr: its entry and return value
    conv_pc,      \* position of the conversation callback
    msgs,         \* the message array the callback was called with
    replies,      \* the reply array the callback was called with
    conv_n,       \* the loop index n of the callback
    stdout,       \* bytes the callback has written to standard output
    stderr,       \* bytes the callback has written to standard error
    written,      \* the results of the callback's calls of fwrite and fputc
    conv_ret      \* the value the callback returned

vars == <<pc, iter, data, fp, line, plugin_args, settings, user_info, argv,
          env_add, res, close_fn, sudo_user, calls, pushes, cleanup, nfail,
          arr, pushed, last, conv_pc, msgs, replies, conv_n, stdout, stderr,
          written, conv_ret>>

harness_vars == <<pc, iter, data, fp, line, plugin_args, settings, user_info,
                  argv, env_add, res, close_fn, sudo_user, calls, pushes,
                  cleanup, nfail>>

array_vars == <<arr, pushed, last>>

conv_vars == <<conv_pc, msgs, replies, conv_n, stdout, stderr, written,
               conv_ret>>

(***************************************************************************)
(* Bounds of the model.                                                    *)
(***************************************************************************)
MaxLines == 2          \* records in one input buffer
MaxIter == 2           \* iterations of the fuzzing loop
MaxAllocFail == 1      \* allocation failures injected per iteration
MaxPush == 130         \* entries pushed to the single array
MaxVaried == 3         \* leading entries of the single array chosen freely
MaxMsgs == 2           \* messages in one call of the conversation callback

(***************************************************************************)
(* Bytes and C strings.  A byte is a one-character string; NUL stands for  *)
(* the zero byte and NL for the newline.  A buffer is a sequence of bytes. *)
(***************************************************************************)
NUL == "NUL"
NL == "\n"

Min(a, b) == IF a < b THEN a ELSE b

Take(s, n) == SubSeq(s, 1, Min(n, Len(s)))

\* The C string held by a buffer: the bytes before the first zero byte.
RECURSIVE CStr(_)
CStr(buf) ==
    IF buf = <<>> \/ Head(buf) = NUL THEN <<>>
    ELSE <<Head(buf)>> \o CStr(Tail(buf))

\* Pointer values.
NULL == [tag |-> "null"]
UNINIT == [tag |-> "uninit"]
StrPtr(s) == [tag |-> "str", s |-> s]

\* A copy of the whole buffer, the bytes after a zero byte included.
strdupWholeBuffer(buf) == StrPtr(buf)

\* strdup(buf): a copy of the C string held by buf.
strdup(buf) == StrPtr(CStr(buf))

\* strncmp(a, b, n) == 0
strncmp0(a, b, n) == Take(CStr(a), n) = Take(CStr(b), n)

(***************************************************************************)
(* struct dynamic_array, free_dynamic_array and push.                      *)
(***************************************************************************)
ARRAY_GROW == 128

EmptyArray == [entries |-> NULL, len |-> 0, size |-> 0]

Buf(slots) == [tag |-> "buf", slots |-> slots]

\* A fresh buffer in place of the resized one: the old slots are lost.
reallocarrayFresh(entries, n) == Buf([i \in 1..n |-> UNINIT])

\* reallocarray(entries, n, sizeof(char *)): old slots kept, new ones
\* uninitialised.
reallocarray(entries, n) ==
    Buf([i \in 1..n |->
            IF entries # NULL /\ i <= Len(entries.slots)
            THEN entries.slots[i] ELSE UNINIT])

\* entries[idx] = v, idx counted from 0 as in C.
Store(entries, idx, v) == Buf([entries.slots EXCEPT ![idx + 1] = v])

\* push with the room for the terminator left out of the growth test.
pushNoRoomForTerminator(a, entry, strdup_ok, realloc_ok) ==
    LET nonnull == entry # NULL
        copy == IF nonnull THEN strdup(entry.s) ELSE NULL
        grow == a.len >= a.size
    IN  IF nonnull /\ ~strdup_ok
        THEN [arr |-> a, ret |-> FALSE, copied |-> FALSE, freed |-> FALSE]
        ELSE IF grow /\ ~realloc_ok
        THEN [arr |-> a, ret |-> FALSE, copied |-> nonnull, freed |-> nonnull]
        ELSE
          LET g == IF grow
                   THEN [entries |-> reallocarray(a.entries, a.size + ARRAY_GROW),
                         len |-> a.len, size |-> a.size + ARRAY_GROW]
                   ELSE a
              s == IF copy # NULL
                   THEN [g EXCEPT !.entries = Store(g.entries, g.len, copy),
                                  !.len = g.len + 1]
                   ELSE g
          IN  [arr |-> [s EXCEPT !.entries = Store(s.entries, s.len, NULL)],
               ret |-> TRUE, copied |-> nonnull, freed |-> FALSE]

\* push with arr->size += 128 moved before the test of tmp.
pushCountsGrowthBeforeTest(a, entry, strdup_ok, realloc_ok) ==
    LET nonnull == entry # NULL
        copy == IF nonnull THEN strdup(entry.s) ELSE NULL
        grow == a.len + (IF nonnull THEN 1 ELSE 0) >= a.size
    IN  IF nonnull /\ ~strdup_ok
        THEN [arr |-> a, ret |-> FALSE, copied |-> FALSE, freed |-> FALSE]
        ELSE IF grow /\ ~realloc_ok
        THEN [arr |-> [a EXCEPT !.size = a.size + ARRAY_GROW], ret |-> FALSE,
              copied |-> nonnull, freed |-> nonnull]
        ELSE
          LET g == IF grow
                   THEN [entries |-> reallocarray(a.entries, a.size + ARRAY_GROW),
                         len |-> a.len, size |-> a.size + ARRAY_GROW]
                   ELSE a
              s == IF copy # NULL
                   THEN [g EXCEPT !.entries = Store(g.entries, g.len, copy),
                                  !.len = g.len + 1]
                   ELSE g
          IN  [arr |-> [s EXCEPT !.entries = Store(s.entries, s.len, NULL)],
               ret |-> TRUE, copied |-> nonnull, freed |-> FALSE]

\* push(arr, entry): the array after the call, the value returned, whether
\* a copy of the entry was made and whether that copy was freed.
push(a, entry, strdup_ok, realloc_ok) ==
    LET nonnull == entry # NULL
        copy == IF nonnull THEN strdup(entry.s) ELSE NULL
        grow == a.len + (IF nonnull THEN 1 ELSE 0) >= a.size
    IN  IF nonnull /\ ~strdup_ok
        THEN [arr |-> a, ret |-> FALSE, copied |-> FALSE, freed |-> FALSE]
        ELSE IF grow /\ ~realloc_ok
        THEN [arr |-> a, ret |-> FALSE, copied |-> nonnull, freed |-> nonnull]
        ELSE
          LET g == IF grow
                   THEN [entries |-> reallocarray(a.entries, a.size + ARRAY_GROW),
                         len |-> a.len, size |-> a.size + ARRAY_GROW]
                   ELSE a
              s == IF copy # NULL
                   THEN [g EXCEPT !.entries = Store(g.entries, g.len, copy),
                                  !.len = g.len + 1]
                   ELSE g
          IN  [arr |-> [s EXCEPT !.entries = Store(s.entries, s.len, NULL)],
               ret |-> TRUE, copied |-> nonnull, freed |-> FALSE]

\* free_strvec: the pointers freed, in order, up to the first NULL slot.
RECURSIVE free_strvec(_)
free_strvec(slots) ==
    IF slots = <<>> \/ Head(slots) = NULL THEN <<>>
    ELSE <<Head(slots)>> \o free_strvec(Tail(slots))

free_dynamic_array(a) == EmptyArray

(***************************************************************************)
(* The input decoder: open_data, getdelim and the newline stripping.       *)
(***************************************************************************)
\* Position of the first newline of a non-empty stream, or its length.
RECURSIVE DelimPos(_, _)
DelimPos(s, i) ==
    IF i >= Len(s) \/ s[i] = NL THEN i ELSE DelimPos(s, i + 1)

\* getdelim(&line, &linesize, '\n', fp) on a stream that is not at EOF:
\* the record read, delimiter included, and the rest of the stream.
getdelim(s) ==
    LET n == DelimPos(s, 1)
    IN  [rec |-> SubSeq(s, 1, n), rest |-> SubSeq(s, n + 1, Len(s))]

\* The record left as getdelim returned it.
StripNewlineKeepsIt(rec) == rec

\* if (line[linelen - 1] == '\n') line[linelen - 1] = '\0';
StripNewline(rec) ==
    IF rec[Len(rec)] = NL THEN [rec EXCEPT ![Len(rec)] = NUL] ELSE rec

\* line[0]; the buffer is followed by the terminator getdelim wrote.
FirstByte(buf) == IF buf = <<>> THEN NUL ELSE buf[1]

(***************************************************************************)
(* The line classifier: the chain of strncmp tests, in the order of the    *)
(* code.  LineKeys lists the key of every test and the array it pushes to. *)
(***************************************************************************)
LineKeys == <<
    [key |-> <<"e", "r", "r", "o", "r", "_", "r", "e", "c", "o", "v", "e", "r", "y", "=">>,
     to |-> "plugin_args"],
    [key |-> <<"s", "u", "d", "o", "e", "r", "s", "_", "f", "i", "l", "e", "=">>,
     to |-> "plugin_args"],
    [key |-> <<"s", "u", "d", "o", "e", "r", "s", "_", "m", "o", "d", "e", "=">>,
     to |-> "plugin_args"],
    [key |-> <<"s", "u", "d", "o", "e", "r", "s", "_", "g", "i", "d", "=">>,
     to |-> "plugin_args"],
    [key |-> <<"s", "u", "d", "o", "e", "r", "s", "_", "u", "i", "d", "=">>,
     to |-> "plugin_args"],
    [key |-> <<"l", "d", "a", "p", "_", "c", "o", "n", "f", "=">>,
     to |-> "plugin_args"],
    [key |-> <<"l", "d", "a", "p", "_", "s", "e", "c", "r", "e", "t", "=">>,
     to |-> "plugin_args"],
    [key |-> <<"u", "s", "e", "r", "=">>,
     to |-> "user_info"],
    [key |-> <<"u", "i", "d", "=">>,
     to |-> "user_info"],
    [key |-> <<"g", "i", "d", "=">>,
     to |-> "user_info"],
    [key |-> <<"g", "r", "o", "u", "p", "s", "=">>,
     to |-> "user_info"],
    [key |-> <<"c", "w", "d", "=">>,
     to |-> "user_info"],
    [key |-> <<"t", "t", "y", "=">>,
     to |-> "user_info"],
    [key |-> <<"h", "o", "s", "t", "=">>,
     to |-> "user_info"],
    [key |-> <<"l", "i", "n", "e", "s", "=">>,
     to |-> "user_info"],
    [key |-> <<"c", "o", "l", "s", "=">>,
     to |-> "user_info"],
    [key |-> <<"s", "i", "d", "=">>,
     to |-> "user_info"],
    [key |-> <<"u", "m", "a", "s", "k", "=">>,
     to |-> "user_info"],
    [key |-> <<"r", "l", "i", "m", "i", "t", "_">>,
     to |-> "user_info"],
    [key |-> <<"a", "r", "g", "v", "=">>,
     to |-> "argv"],
    [key |-> <<"e", "n", "v", "=">>,
     to |-> "env_add"]>>

\* The chain with sizeof(key) as the length: the terminator is compared too.
RECURSIVE FirstMatchWithTerminator(_, _)
FirstMatchWithTerminator(buf, i) ==
    IF i > Len(LineKeys) THEN 0
    ELSE IF strncmp0(buf, LineKeys[i].key, Len(LineKeys[i].key) + 1) THEN i
    ELSE FirstMatchWithTerminator(buf, i + 1)

\* Index of the first test of the chain that matches, 0 when none does.
RECURSIVE FirstMatch(_, _)
FirstMatch(buf, i) ==
    IF i > Len(LineKeys) THEN 0
    ELSE IF strncmp0(buf, LineKeys[i].key, Len(LineKeys[i].key)) THEN i
    ELSE FirstMatch(buf, i + 1)

\* The array a line is pushed to, "skip" for comments and blank lines.
Classify(buf) ==
    IF FirstByte(buf) = "#" \/ FirstByte(buf) = NUL THEN "skip"
    ELSE LET m == FirstMatch(buf, 1)
         IN  IF m = 0 THEN "settings" ELSE LineKeys[m].to

(***************************************************************************)
(* Input buffers.  A corpus is a set of buffers made of records, each      *)
(* followed by a newline except, possibly, the last: every buffer of up    *)
(* to MaxLines of the harness lines, and every classifier line alone.      *)
(***************************************************************************)
HarnessLines == {
    <<"a", "r", "g", "v", "=", "a">>,
    <<"a", "r", "g", "v", "=", "b">>,
    <<"s">> }

RECURSIVE SeqsUpTo(_, _)
SeqsUpTo(S, n) ==
    IF n = 0 THEN {<<>>}
    ELSE LET shorter == SeqsUpTo(S, n - 1)
         IN  shorter \cup {Append(s, x) : s \in shorter, x \in S}

RECURSIVE Join(_, _)
Join(ls, last_nl) ==
    IF ls = <<>> THEN <<>>
    ELSE IF Len(ls) = 1 THEN Head(ls) \o (IF last_nl THEN <<NL>> ELSE <<>>)
    ELSE Head(ls) \o <<NL>> \o Join(Tail(ls), last_nl)

Buffers(S, n, NLs) == {Join(ls, nl) : ls \in SeqsUpTo(S, n), nl \in NLs}

\* Lines for the classifier: every key of the chain bare, with a value,
\* short of its last byte and in another case, and lines that match no key.
ClassifierLines == {
    <<"e", "r", "r", "o", "r", "_", "r", "e", "c", "o", "v", "e", "r", "y", "=">>,
    <<"e", "r", "r", "o", "r", "_", "r", "e", "c", "o", "v", "e", "r", "y", "=", "x">>,
    <<"e", "r", "r", "o", "r", "_", "r", "e", "c", "o", "v", "e", "r", "y">>,
    <<"E", "r", "r", "o", "r", "_", "r", "e", "c", "o", "v", "e", "r", "y", "=", "x">>,
    <<"s", "u", "d", "o", "e", "r", "s", "_", "f", "i", "l", "e", "=">>,
    <<"s", "u", "d", "o", "e", "r", "s", "_", "f", "i", "l", "e", "=", "x">>,
    <<"s", "u", "d", "o", "e", "r", "s", "_", "f", "i", "l", "e">>,
    <<"S", "u", "d", "o", "e", "r", "s", "_", "f", "i", "l", "e", "=", "x">>,
    <<"s", "u", "d", "o", "e", "r", "s", "_", "m", "o", "d", "e", "=">>,
    <<"s", "u", "d", "o", "e", "r", "s", "_", "m", "o", "d", "e", "=", "x">>,
    <<"s", "u", "d", "o", "e", "r", "s", "_", "m", "o", "d", "e">>,
    <<"S", "u", "d", "o", "e", "r", "s", "_", "m", "o", "d", "e", "=", "x">>,
    <<"s", "u", "d", "o", "e", "r", "s", "_", "g", "i", "d", "=">>,
    <<"s", "u", "d", "o", "e", "r", "s", "_", "g", "i", "d", "=", "x">>,
    <<"s", "u", "d", "o", "e", "r", "s", "_", "g", "i", "d">>,
    <<"S", "u", "d", "o", "e", "r", "s", "_", "g", "i", "d", "=", "x">>,
    <<"s", "u", "d", "o", "e", "r", "s", "_", "u", "i", "d", "=">>,
    <<"s", "u", "d", "o", "e", "r", "s", "_", "u", "i", "d", "=", "x">>,
    <<"s", "u", "d", "o", "e", "r", "s", "_", "u", "i", "d">>,
    <<"S", "u", "d", "o", "e", "r", "s", "_", "u", "i", "d", "=", "x">>,
    <<"l", "d", "a", "p", "_", "c", "o", "n", "f", "=">>,
    <<"l", "d", "a", "p", "_", "c", "o", "n", "f", "=", "x">>,
    <<"l", "d", "a", "p", "_", "c", "o", "n", "f">>,
    <<"L", "d", "a", "p", "_", "c", "o", "n", "f", "=", "x">>,
    <<"l", "d", "a", "p", "_", "s", "e", "c", "r", "e", "t", "=">>,
    <<"l", "d", "a", "p", "_", "s", "e", "c", "r", "e", "t", "=", "x">>,
    <<"l", "d", "a", "p", "_", "s", "e", "c", "r", "e", "t">>,
    <<"L", "d", "a", "p", "_", "s", "e", "c", "r", "e", "t", "=", "x">>,
    <<"u", "s", "e", "r", "=">>,
    <<"u", "s", "e", "r", "=", "x">>,
    <<"u", "s", "e", "r">>,
    <<"U", "s", "e", "r", "=", "x">>,
    <<"u", "i", "d", "=">>,
    <<"u", "i", "d", "=", "x">>,
    <<"u", "i", "d">>,
    <<"U", "i", "d", "=", "x">>,
    <<"g", "i", "d", "=">>,
    <<"g", "i", "d", "=", "x">>,
    <<"g", "i", "d">>,
    <<"G", "i", "d", "=", "x">>,
    <<"g", "r", "o", "u", "p", "s", "=">>,
    <<"g", "r", "o", "u", "p", "s", "=", "x">>,
    <<"g", "r", "o", "u", "p", "s">>,
    <<"G", "r", "o", "u", "p", "s", "=", "x">>,
    <<"c", "w", "d", "=">>,
    <<"c", "w", "d", "=", "x">>,
    <<"c", "w", "d">>,
    <<"C", "w", "d", "=", "x">>,
    <<"t", "t", "y", "=">>,
    <<"t", "t", "y", "=", "x">>,
    <<"t", "t", "y">>,
    <<"T", "t", "y", "=", "x">>,
    <<"h", "o", "s", "t", "=">>,
    <<"h", "o", "s", "t", "=", "x">>,
    <<"h", "o", "s", "t">>,
    <<"H", "o", "s", "t", "=", "x">>,
    <<"l", "i", "n", "e", "s", "=">>,
    <<"l", "i", "n", "e", "s", "=", "x">>,
    <<"l", "i", "n", "e", "s">>,
    <<"L", "i", "n", "e", "s", "=", "x">>,
    <<"c", "o", "l", "s", "=">>,
    <<"c", "o", "l", "s", "=", "x">>,
    <<"c", "o", "l", "s">>,
    <<"C", "o", "l", "s", "=", "x">>,
    <<"s", "i", "d", "=">>,
    <<"s", "i", "d", "=", "x">>,
    <<"s", "i", "d">>,
    <<"S", "i", "d", "=", "x">>,
    <<"u", "m", "a", "s", "k", "=">>,
    <<"u", "m", "a", "s", "k", "=", "x">>,
    <<"u", "m", "a", "s", "k">>,
    <<"U", "m", "a", "s", "k", "=", "x">>,
    <<"r", "l", "i", "m", "i", "t", "_">>,
    <<"r", "l", "i", "m", "i", "t", "_", "x">>,
    <<"r", "l", "i", "m", "i", "t">>,
    <<"R", "l", "i", "m", "i", "t", "_", "x">>,
    <<"a", "r", "g", "v", "=">>,
    <<"a", "r", "g", "v", "=", "x">>,
    <<"a", "r", "g", "v">>,
    <<"A", "r", "g", "v", "=", "x">>,
    <<"e", "n", "v", "=">>,
    <<"e", "n", "v", "=", "x">>,
    <<"e", "n", "v">>,
    <<"E", "n", "v", "=", "x">>,
    <<"u", "s", "e", "r", "=", "a", "l", "i", "c", "e">>,
    <<"u", "i", "d", "=", "1", "0", "0", "0">>,
    <<"a", "r", "g", "v", "=", "/", "b", "i", "n", "/", "l", "s">>,
    <<"f", "o", "o", "=", "b", "a", "r">>,
    <<"#", " ", "c", "o", "m", "m", "e", "n", "t">>,
    <<"#", "a", "r", "g", "v", "=", "x">>,
    <<>>,
    <<" ", "u", "s", "e", "r", "=", "x">>,
    <<"x", "u", "s", "e", "r", "=", "x">>,
    <<"a", "r", "g", "v", " ", "=", "x">>,
    <<"r", "l", "i", "m", "i", "t", "_", "c", "o", "r", "e", "=", "0">>,
    <<"u", "i", "d", NUL, "=", "x">>,
    <<"u", "s", "e", "r", "=", NUL, "x">>,
    <<NUL, "a", "r", "g", "v", "=", "x">>,
    <<"s", "u", "d", "o", "e", "r", "s", "_", "=", "x">>,
    <<"l", "d", "a", "p", "_", "=", "x">> }

Corpus ==
    Buffers(HarnessLines \cup {<<>>}, MaxLines, BOOLEAN)
        \cup Buffers(ClassifierLines, 1, {TRUE})

(***************************************************************************)
(* The process-wide user record and what the plugin may leave in it.       *)
(***************************************************************************)
SudoUserFields ==
    {"pw", "gid_list", "_runas_pw", "_runas_gr", "cwd", "name", "ttypath",
     "tty", "shost", "host", "srunhost", "runhost", "cmnd", "cmnd_args",
     "cmnd_safe", "cmnd_stat", "iolog_file", "iolog_path", "gids",
     "env_vars", "uid"}

\* memset(&sudo_user, 0, sizeof(sudo_user))
ZeroUser == [f \in SudoUserFields |-> 0]

\* The address of the string held by argv.entries[0].
ARGV0 == 100

\* Every pointer field owns a block of its own.
OwnedUser ==
    [pw |-> 1, gid_list |-> 2, _runas_pw |-> 3, _runas_gr |-> 4, cwd |-> 5,
     name |-> 6, ttypath |-> 7, tty |-> 8, shost |-> 9, host |-> 10,
     srunhost |-> 11, runhost |-> 12, cmnd |-> 13, cmnd_args |-> 14,
     cmnd_safe |-> 15, cmnd_stat |-> 16, iolog_file |-> 17,
     iolog_path |-> 18, gids |-> 19, env_vars |-> 20, uid |-> 21]

\* Short host names alias the long ones, the command aliases argv[0], no
\* tty path, no run-as group.
AliasedUser(a) ==
    [OwnedUser EXCEPT !.shost = 10, !.srunhost = 12, !.ttypath = 0,
                      !._runas_gr = 0,
                      !.cmnd = IF a.len # 0 THEN ARGV0 ELSE 0]

\* The records a plugin call may leave behind.
PluginWrites(u, a) == {u, OwnedUser, AliasedUser(a)}

\* The records close may leave behind.
CloseWrites(u) == {u, OwnedUser}

OpenResults == {-2, -1, 0, 1}

(***************************************************************************)
(* The cleanup code after the done label.                                  *)
(***************************************************************************)
Step(name, arg) == [step |-> name, arg |-> arg]

\* Addresses of the blocks an array owns: the string held by slot idx
\* and the buffer of slots.  Distinct blocks have distinct addresses.
ArrayBase(n) ==
    CASE n = "argv" -> ARGV0
      [] n = "plugin_args" -> 10 * ARGV0
      [] n = "settings" -> 20 * ARGV0
      [] n = "user_info" -> 30 * ARGV0
      [] n = "env_add" -> 40 * ARGV0

StrAddr(n, idx) == ArrayBase(n) + idx

BufAddr(n) == ArrayBase(n) + 5 * ARGV0

\* free_dynamic_array as the sequence of its steps on the array called n:
\* free_strvec, free(arr->entries), memset.
FreeArraySteps(n, a) ==
    (IF a.entries # NULL
     THEN [i \in 1..Len(free_strvec(a.entries.slots)) |->
              Step("free", StrAddr(n, i - 1))]
          \o <<Step("free", BufAddr(n))>>
     ELSE <<>>)
    \o <<Step("memset_array", ArrayBase(n))>>

\* The steps before the record is zeroed, with the tests for aliases of
\* host and runhost left out.
UserStepsNoAliasTest(u, av) ==
       (IF u.pw # 0 THEN <<Step("sudo_pw_delref", u.pw)>> ELSE <<>>)
    \o (IF u.gid_list # 0 THEN <<Step("sudo_gidlist_delref", u.gid_list)>>
        ELSE <<>>)
    \o (IF u._runas_pw # 0 THEN <<Step("sudo_pw_delref", u._runas_pw)>>
        ELSE <<>>)
    \o (IF u._runas_gr # 0 THEN <<Step("sudo_gr_delref", u._runas_gr)>>
        ELSE <<>>)
    \o <<Step("free", u.cwd), Step("free", u.name)>>
    \o (IF u.ttypath # 0 THEN <<Step("free", u.ttypath)>>
        ELSE <<Step("free", u.tty)>>)
    \o <<Step("free", u.shost), Step("free", u.host),
         Step("free", u.srunhost), Step("free", u.runhost)>>
    \o (IF av.len = 0 \/ (av.len # 0 /\ u.cmnd # ARGV0)
        THEN <<Step("free", u.cmnd)>> ELSE <<>>)
    \o <<Step("free", u.cmnd_args), Step("free", u.cmnd_safe),
         Step("free", u.cmnd_stat), Step("free", u.iolog_file),
         Step("free", u.iolog_path), Step("free", u.gids)>>

\* The steps before the record is zeroed, in the order of the code.
UserSteps(u, av) ==
       (IF u.pw # 0 THEN <<Step("sudo_pw_delref", u.pw)>> ELSE <<>>)
    \o (IF u.gid_list # 0 THEN <<Step("sudo_gidlist_delref", u.gid_list)>>
        ELSE <<>>)
    \o (IF u._runas_pw # 0 THEN <<Step("sudo_pw_delref", u._runas_pw)>>
        ELSE <<>>)
    \o (IF u._runas_gr # 0 THEN <<Step("sudo_gr_delref", u._runas_gr)>>
        ELSE <<>>)
    \o <<Step("free", u.cwd), Step("free", u.name)>>
    \o (IF u.ttypath # 0 THEN <<Step("free", u.ttypath)>>
        ELSE <<Step("free", u.tty)>>)
    \o (IF u.shost # u.host THEN <<Step("free", u.shost)>> ELSE <<>>)
    \o <<Step("free", u.host)>>
    \o (IF u.srunhost # u.runhost THEN <<Step("free", u.srunhost)>>
        ELSE <<>>)
    \o <<Step("free", u.runhost)>>
    \o (IF av.len = 0 \/ (av.len # 0 /\ u.cmnd # ARGV0)
        THEN <<Step("free", u.cmnd)>> ELSE <<>>)
    \o <<Step("free", u.cmnd_args), Step("free", u.cmnd_safe),
         Step("free", u.cmnd_stat), Step("free", u.iolog_file),
         Step("free", u.iolog_path), Step("free", u.gids)>>

\* The cleanup code with the record zeroed first: the tests on its handles
\* then see a zeroed record.
CleanupStepsZeroFirst(u, pa, se, ui, av, ea) ==
       <<Step("memset_user", 0)>>
    \o UserSteps(ZeroUser, av)
    \o <<Step("env_init", 0)>>
    \o FreeArraySteps("plugin_args", pa)
    \o FreeArraySteps("settings", se)
    \o FreeArraySteps("user_info", ui)
    \o FreeArraySteps("argv", av)
    \o FreeArraySteps("env_add", ea)

\* The steps of the cleanup code, lines 351-397, in the order of the code.
CleanupSteps(u, pa, se, ui, av, ea) ==
       UserSteps(u, av)
    \o <<Step("memset_user", 0), Step("env_init", 0)>>
    \o FreeArraySteps("plugin_args", pa)
    \o FreeArraySteps("settings", se)
    \o FreeArraySteps("user_info", ui)
    \o FreeArraySteps("argv", av)
    \o FreeArraySteps("env_add", ea)

\* The pointer fields cleared one by one, env_vars forgotten.
ResetUserKeepsEnvVars(u) == [ZeroUser EXCEPT !.env_vars = u.env_vars]

\* The record the cleanup code leaves behind.
ResetUser(u) == ZeroUser

(***************************************************************************)
(* What a plugin entry point is handed: a char ** is NULL or a buffer      *)
(* whose strings are read up to the first NULL slot.                       *)
(***************************************************************************)
RECURSIVE Terminated(_)
Terminated(slots) ==
    IF slots = <<>> \/ Head(slots) = UNINIT THEN FALSE
    ELSE IF Head(slots) = NULL THEN TRUE
    ELSE Terminated(Tail(slots))

RECURSIVE StrsOf(_)
StrsOf(slots) ==
    IF slots = <<>> \/ Head(slots) = NULL \/ Head(slots) = UNINIT THEN <<>>
    ELSE <<Head(slots).s>> \o StrsOf(Tail(slots))

Vec(a) ==
    IF a.entries = NULL
    THEN [ptr |-> "null", strs |-> <<>>, terminated |-> FALSE]
    ELSE [ptr |-> "buf", strs |-> StrsOf(a.entries.slots),
          terminated |-> Terminated(a.entries.slots)]

(***************************************************************************)
(* LLVMFuzzerTestOneInput, one action per step.                            *)
(***************************************************************************)
Array(n) ==
    CASE n = "plugin_args" -> plugin_args
      [] n = "settings" -> settings
      [] n = "user_info" -> user_info
      [] n = "argv" -> argv
      [] n = "env_add" -> env_add

ArrayNames == {"plugin_args", "settings", "user_info", "argv", "env_add"}

AllocOutcomes == {<<TRUE, TRUE>>, <<FALSE, TRUE>>, <<TRUE, FALSE>>}

\* push(&n, entry) with its return value ignored, as at every call site.
PushTo(n, entry, oc) ==
    LET r == push(Array(n), entry, oc[1], oc[2])
    IN  /\ oc = <<TRUE, TRUE>> \/ nfail < MaxAllocFail
        /\ plugin_args' = IF n = "plugin_args" THEN r.arr ELSE plugin_args
        /\ settings' = IF n = "settings" THEN r.arr ELSE settings
        /\ user_info' = IF n = "user_info" THEN r.arr ELSE user_info
        /\ argv' = IF n = "argv" THEN r.arr ELSE argv
        /\ env_add' = IF n = "env_add" THEN r.arr ELSE env_add
        /\ pushes' = Append(pushes, [to |-> n, entry |-> entry, ret |-> r.ret])
        /\ nfail' = IF r.ret THEN nfail ELSE nfail + 1

\* open_data: a stream over the buffer, or NULL when it cannot be made.
open_data(d, ok) ==
    IF ok THEN [state |-> "open", rest |-> d]
    ELSE [state |-> "null", rest |-> <<>>]

\* The NULL test on fp left out.
AfterOpenDataNoNullTest(f) == "push_user_info"

\* if (fp == NULL) return 0;
AfterOpenData(f) == IF f.state = "null" THEN "return" ELSE "push_user_info"

\* Every value other than 1 handled as case 0.
SwitchTargetFatalAsFailure(r) == IF r = 1 THEN "case 1" ELSE "case 0"

\* The break of case 0 left out: 0 falls through to case 1.
SwitchTargetFailureFallsThrough(r) ==
    IF r = 0 \/ r = 1 THEN "case 1" ELSE "default"

\* Case 0 handled as the default case.
SwitchTargetFailureAsFatal(r) == IF r = 1 THEN "case 1" ELSE "default"

\* The label the switch on res jumps to.
SwitchTarget(r) ==
    IF r = 0 THEN "case 0" ELSE IF r = 1 THEN "case 1" ELSE "default"

\* fp = open_data(data, size); if (fp == NULL) return 0;
OpenData ==
    /\ pc = "idle"
    /\ iter < MaxIter
    /\ \E d \in Corpus, ok \in BOOLEAN :
         /\ data' = d
         /\ fp' = open_data(d, ok)
         /\ pc' = AfterOpenData(fp')
    /\ UNCHANGED <<iter, line, plugin_args, settings, user_info, argv,
                   env_add, res, close_fn, sudo_user, calls, pushes, cleanup,
                   nfail>>
    /\ UNCHANGED <<array_vars, conv_vars>>

\* push(&user_info, NULL);
PushUserInfo ==
    /\ pc = "push_user_info"
    /\ \E oc \in AllocOutcomes : PushTo("user_info", NULL, oc)
    /\ pc' = "push_settings"
    /\ UNCHANGED <<iter, data, fp, line, res, close_fn, sudo_user, calls,
                   cleanup>>
    /\ UNCHANGED <<array_vars, conv_vars>>

\* push(&settings, NULL);
PushSettings ==
    /\ pc = "push_settings"
    /\ \E oc \in AllocOutcomes : PushTo("settings", NULL, oc)
    /\ pc' = "getdelim"
    /\ UNCHANGED <<iter, data, fp, line, res, close_fn, sudo_user, calls,
                   cleanup>>
    /\ UNCHANGED <<array_vars, conv_vars>>

\* One turn of the while loop that reads a record: strip the newline,
\* skip or classify, push.
ReadLine ==
    /\ pc = "getdelim"
    /\ fp.rest # <<>>
    /\ LET g == getdelim(fp.rest)
           buf == StripNewline(g.rec)
           to == Classify(buf)
       IN  /\ fp' = [fp EXCEPT !.rest = g.rest]
           /\ line' = buf
           /\ IF to = "skip"
              THEN UNCHANGED <<plugin_args, settings, user_info, argv,
                               env_add, pushes, nfail>>
              ELSE \E oc \in AllocOutcomes : PushTo(to, StrPtr(buf), oc)
    /\ UNCHANGED <<pc, iter, data, res, close_fn, sudo_user, calls, cleanup>>
    /\ UNCHANGED <<array_vars, conv_vars>>

\* getdelim returns -1, at end of file or because it could not allocate the
\* line buffer: fclose(fp); free(line);
EndOfInput ==
    /\ pc = "getdelim"
    /\ \/ fp.rest = <<>> /\ nfail' = nfail
       \/ fp.rest # <<>> /\ nfail < MaxAllocFail /\ nfail' = nfail + 1
    /\ fp' = [state |-> "closed", rest |-> fp.rest]
    /\ line' = <<>>
    /\ pc' = "open"
    /\ UNCHANGED <<iter, data, plugin_args, settings, user_info, argv,
                   env_add, res, close_fn, sudo_user, calls, pushes, cleanup>>
    /\ UNCHANGED <<array_vars, conv_vars>>

\* res = sudoers_policy.open(..., settings.entries, user_info.entries,
\*     environ, plugin_args.entries, &errstr);
PolicyOpen ==
    /\ pc = "open"
    /\ \E r \in OpenResults : res' = r
    /\ \E u \in PluginWrites(sudo_user, argv) : sudo_user' = u
    /\ calls' = Append(calls, [op |-> "open", settings |-> Vec(settings),
                               user_info |-> Vec(user_info),
                               plugin_args |-> Vec(plugin_args)])
    /\ pc' = "switch"
    /\ UNCHANGED <<iter, data, fp, line, plugin_args, settings, user_info,
                   argv, env_add, close_fn, pushes, cleanup, nfail>>
    /\ UNCHANGED <<array_vars, conv_vars>>

\* case 0: break;
OpenFailure ==
    /\ pc = "switch"
    /\ SwitchTarget(res) = "case 0"
    /\ pc' = "close"
    /\ UNCHANGED <<iter, data, fp, line, plugin_args, settings, user_info,
                   argv, env_add, res, close_fn, sudo_user, calls, pushes,
                   cleanup, nfail>>
    /\ UNCHANGED <<array_vars, conv_vars>>

DefaultCommand == <<"/", "u", "s", "r", "/", "b", "i", "n", "/", "i", "d">>

\* case 1: push the default command when argv is empty, then
\* sudoers_policy.check_policy(argv.len, argv.entries, env_add.entries, ...)
CheckPolicy ==
    /\ pc = "switch"
    /\ SwitchTarget(res) = "case 1"
    /\ IF argv.len = 0
       THEN \E oc \in AllocOutcomes : PushTo("argv", StrPtr(DefaultCommand), oc)
       ELSE UNCHANGED <<plugin_args, settings, user_info, argv, env_add,
                        pushes, nfail>>
    /\ calls' = Append(calls, [op |-> "check_policy", argc |-> argv'.len,
                               argv |-> Vec(argv'), env_add |-> Vec(env_add)])
    /\ \E u \in PluginWrites(sudo_user, argv') : sudo_user' = u
    /\ pc' = "close"
    /\ UNCHANGED <<iter, data, fp, line, res, close_fn, cleanup>>
    /\ UNCHANGED <<array_vars, conv_vars>>

\* The default case returns instead of jumping to done.
OpenFatalReturns ==
    /\ pc = "switch"
    /\ SwitchTarget(res) = "default"
    /\ pc' = "return"
    /\ UNCHANGED <<iter, data, fp, line, plugin_args, settings, user_info,
                   argv, env_add, res, close_fn, sudo_user, calls, pushes,
                   cleanup, nfail>>
    /\ UNCHANGED <<array_vars, conv_vars>>

\* default: goto done;
OpenFatal ==
    /\ pc = "switch"
    /\ SwitchTarget(res) = "default"
    /\ pc' = "done"
    /\ UNCHANGED <<iter, data, fp, line, plugin_args, settings, user_info,
                   argv, env_add, res, close_fn, sudo_user, calls, pushes,
                   cleanup, nfail>>
    /\ UNCHANGED <<array_vars, conv_vars>>

\* if (sudoers_policy.close != NULL) sudoers_policy.close(0, 0);
PolicyClose ==
    /\ pc = "close"
    /\ IF close_fn
       THEN /\ calls' = Append(calls, [op |-> "close", exit_status |-> 0,
                                       error |-> 0])
            /\ \E u \in CloseWrites(sudo_user) : sudo_user' = u
       ELSE UNCHANGED <<calls, sudo_user>>
    /\ pc' = "done"
    /\ UNCHANGED <<iter, data, fp, line, plugin_args, settings, user_info,
                   argv, env_add, res, close_fn, pushes, cleanup, nfail>>
    /\ UNCHANGED <<array_vars, conv_vars>>

\* done: the cleanup code, then return 0.
Cleanup ==
    /\ pc = "done"
    /\ cleanup' = cleanup \o CleanupSteps(sudo_user, plugin_args, settings,
                                           user_info, argv, env_add)
    /\ sudo_user' = ResetUser(sudo_user)
    /\ plugin_args' = free_dynamic_array(plugin_args)
    /\ settings' = free_dynamic_array(settings)
    /\ user_info' = free_dynamic_array(user_info)
    /\ argv' = free_dynamic_array(argv)
    /\ env_add' = free_dynamic_array(env_add)
    /\ pc' = "return"
    /\ UNCHANGED <<iter, data, fp, line, res, close_fn, calls, pushes, nfail>>
    /\ UNCHANGED <<array_vars, conv_vars>>

\* return 0: the locals of the call are gone, the fuzzing loop may call
\* the function again.
Return ==
    /\ pc = "return"
    /\ pc' = "idle"
    /\ iter' = iter + 1
    /\ data' = <<>>
    /\ fp' = [state |-> "none", rest |-> <<>>]
    /\ line' = <<>>
    /\ plugin_args' = EmptyArray
    /\ settings' = EmptyArray
    /\ user_info' = EmptyArray
    /\ argv' = EmptyArray
    /\ env_add' = EmptyArray
    /\ res' = 0
    /\ calls' = <<>>
    /\ pushes' = <<>>
    /\ cleanup' = <<>>
    /\ nfail' = 0
    /\ UNCHANGED <<close_fn, sudo_user>>
    /\ UNCHANGED <<array_vars, conv_vars>>

NoPush == [called |-> FALSE, entry |-> NULL, ret |-> FALSE,
           copied |-> FALSE, freed |-> FALSE]

Init ==
    /\ pc = "idle"
    /\ iter = 0
    /\ data = <<>>
    /\ fp = [state |-> "none", rest |-> <<>>]
    /\ line = <<>>
    /\ plugin_args = EmptyArray
    /\ settings = EmptyArray
    /\ user_info = EmptyArray
    /\ argv = EmptyArray
    /\ env_add = EmptyArray
    /\ res = 0
    /\ close_fn \in BOOLEAN
    /\ sudo_user = ZeroUser
    /\ calls = <<>>
    /\ pushes = <<>>
    /\ cleanup = <<>>
    /\ nfail = 0
    /\ arr = EmptyArray
    /\ pushed = <<>>
    /\ last = NoPush
    /\ conv_pc = "idle"
    /\ msgs = <<>>
    /\ replies = <<>>
    /\ conv_n = 0
    /\ stdout = <<>>
    /\ stderr = <<>>
    /\ written = <<>>
    /\ conv_ret = 0

Next ==
    \/ OpenData
    \/ PushUserInfo
    \/ PushSettings
    \/ ReadLine
    \/ EndOfInput
    \/ PolicyOpen
    \/ OpenFailure
    \/ CheckPolicy
    \/ OpenFatal
    \/ PolicyClose
    \/ Cleanup
    \/ Return

Spec == Init /\ [][Next]_vars

(***************************************************************************)
(* A single dynamic array that starts empty and is driven by push alone.   *)
(* The first MaxVaried entries are chosen freely, the later ones are all   *)
(* the same, and at most MaxPush entries are stored.                       *)
(***************************************************************************)
EntryA == StrPtr(<<"a">>)
EntryB == StrPtr(<<"b", NUL, "c">>)

EntryChoices == IF arr.len < MaxVaried THEN {EntryA, EntryB} ELSE {EntryA}

ArrayPush(entry, oc) ==
    LET r == push(arr, entry, oc[1], oc[2])
    IN  /\ arr' = r.arr
        /\ last' = [called |-> TRUE, entry |-> entry, ret |-> r.ret,
                    copied |-> r.copied, freed |-> r.freed]
        /\ pushed' = IF r.ret /\ entry # NULL
                     THEN Append(pushed, entry) ELSE pushed
        /\ UNCHANGED <<harness_vars, conv_vars>>

\* push(&arr, entry) with a non-null entry.
PushEntry ==
    /\ arr.len < MaxPush
    /\ \E e \in EntryChoices, oc \in AllocOutcomes : ArrayPush(e, oc)

\* push(&arr, NULL)
PushNull ==
    \E oc \in AllocOutcomes : ArrayPush(NULL, oc)

ArrayNext == PushEntry \/ PushNull

ArraySpec == Init /\ [][ArrayNext]_vars

(***************************************************************************)
(* fuzz_conversation, the conversation callback, called by the plugin     *)
(* with an array of messages and an array of reply slots.                  *)
(***************************************************************************)
SUDO_CONV_PROMPT_ECHO_OFF == 1
SUDO_CONV_PROMPT_ECHO_ON == 2
SUDO_CONV_ERROR_MSG == 3
SUDO_CONV_INFO_MSG == 4
SUDO_CONV_PROMPT_MASK == 5
SUDO_CONV_DEBUG_MSG == 6
SUDO_CONV_PREFER_TTY == 8192

\* msg->msg_type & 0xff
Low8(t) == t % 256

PromptTypes ==
    {SUDO_CONV_PROMPT_ECHO_ON, SUDO_CONV_PROMPT_MASK,
     SUDO_CONV_PROMPT_ECHO_OFF}

\* struct sudo_conv_message: the types and texts a call is made with.
MsgTypes ==
    {SUDO_CONV_PROMPT_ECHO_OFF, SUDO_CONV_PROMPT_ECHO_ON, SUDO_CONV_ERROR_MSG,
     SUDO_CONV_INFO_MSG, SUDO_CONV_PROMPT_MASK, SUDO_CONV_DEBUG_MSG,
     SUDO_CONV_PREFER_TTY + SUDO_CONV_INFO_MSG,
     SUDO_CONV_PREFER_TTY + SUDO_CONV_ERROR_MSG}

MsgTexts == {NULL, StrPtr(<<>>), StrPtr(<<"a", "b">>)}

Messages == [msg_type : MsgTypes, msg : MsgTexts]

strlen(p) == Len(CStr(p.s))

\* msgs[n]
CurMsg == msgs[conv_n + 1]

\* fuzz_conversation(num_msgs, msgs, replies, callback): the call.
ConvCall ==
    /\ conv_pc = "idle"
    /\ \E a \in SeqsUpTo(Messages, MaxMsgs) :
          /\ msgs' = a
          /\ replies' = [i \in 1..Len(a) |-> "unset"]
    /\ conv_n' = 0
    /\ conv_pc' = "loop"
    /\ UNCHANGED <<stdout, stderr, written, conv_ret>>
    /\ UNCHANGED <<harness_vars, array_vars>>

\* case SUDO_CONV_PROMPT_ECHO_ON, _MASK, _ECHO_OFF: return -1;
ConvPrompt ==
    /\ conv_pc = "loop" /\ conv_n < Len(msgs)
    /\ Low8(CurMsg.msg_type) \in PromptTypes
    /\ conv_ret' = -1
    /\ conv_pc' = "returned"
    /\ UNCHANGED <<msgs, replies, conv_n, stdout, stderr, written>>
    /\ UNCHANGED <<harness_vars, array_vars>>

\* default: return -1;
ConvDefault ==
    /\ conv_pc = "loop" /\ conv_n < Len(msgs)
    /\ Low8(CurMsg.msg_type) \notin
          PromptTypes \cup {SUDO_CONV_ERROR_MSG, SUDO_CONV_INFO_MSG}
    /\ conv_ret' = -1
    /\ conv_pc' = "returned"
    /\ UNCHANGED <<msgs, replies, conv_n, stdout, stderr, written>>
    /\ UNCHANGED <<harness_vars, array_vars>>

\* case SUDO_CONV_ERROR_MSG, SUDO_CONV_INFO_MSG: fwrite returns the number
\* of bytes it wrote, from 0 to len; fputc is called when that is not 0.
ConvMessage ==
    /\ conv_pc = "loop" /\ conv_n < Len(msgs)
    /\ Low8(CurMsg.msg_type) \in {SUDO_CONV_ERROR_MSG, SUDO_CONV_INFO_MSG}
    /\ LET to == IF Low8(CurMsg.msg_type) = SUDO_CONV_ERROR_MSG
                 THEN "stderr" ELSE "stdout"
       IN  IF CurMsg.msg = NULL \/ strlen(CurMsg.msg) = 0
           THEN /\ conv_n' = conv_n + 1
                /\ UNCHANGED <<conv_pc, conv_ret, stdout, stderr, written>>
           ELSE \E w \in 0..strlen(CurMsg.msg), nl \in BOOLEAN :
                   LET out == Take(CStr(CurMsg.msg.s), w) \o
                                 (IF w # 0 /\ nl THEN <<NL>> ELSE <<>>)
                   IN  /\ w = 0 => nl
                       /\ stdout' = IF to = "stdout" THEN stdout \o out
                                    ELSE stdout
                       /\ stderr' = IF to = "stderr" THEN stderr \o out
                                    ELSE stderr
                       /\ written' =
                             Append(written,
                                    [n |-> conv_n, to |-> to,
                                     len |-> strlen(CurMsg.msg),
                                     fwrite |-> w, fputc |-> w # 0 /\ nl])
                       /\ IF w = 0 \/ ~nl
                          THEN /\ conv_ret' = -1
                               /\ conv_pc' = "returned"
                               /\ conv_n' = conv_n
                          ELSE /\ conv_n' = conv_n + 1
                               /\ UNCHANGED <<conv_pc, conv_ret>>
    /\ UNCHANGED <<msgs, replies>>
    /\ UNCHANGED <<harness_vars, array_vars>>

\* return 0; after the loop
ConvReturn ==
    /\ conv_pc = "loop" /\ conv_n = Len(msgs)
    /\ conv_ret' = 0
    /\ conv_pc' = "returned"
    /\ UNCHANGED <<msgs, replies, conv_n, stdout, stderr, written>>
    /\ UNCHANGED <<harness_vars, array_vars>>

\* The caller goes on; the streams are observed afresh at the next call.
ConvDone ==
    /\ conv_pc = "returned"
    /\ conv_pc' = "idle"
    /\ msgs' = <<>>
    /\ replies' = <<>>
    /\ conv_n' = 0
    /\ stdout' = <<>>
    /\ stderr' = <<>>
    /\ written' = <<>>
    /\ conv_ret' = 0
    /\ UNCHANGED <<harness_vars, array_vars>>

ConvNext ==
    \/ ConvCall
    \/ ConvPrompt
    \/ ConvDefault
    \/ ConvMessage
    \/ ConvReturn
    \/ ConvDone

ConvSpec == Init /\ [][ConvNext]_vars

(***************************************************************************)
(* Claims.                                                                 *)
(***************************************************************************)
\* Slot idx of an array, counted from 0; UNINIT outside the buffer.
Slot(a, idx) ==
    IF a.entries # NULL /\ idx + 1 \in DOMAIN a.entries.slots
    THEN a.entries.slots[idx + 1] ELSE UNINIT

\* C7: an array that starts empty holds, after any sequence of push calls,
\* exactly the N non-null entries pushed with success: len = N, slots
\* 0..N-1 hold the copies in push order, slot N holds the NULL terminator
\* and N < size; once a push (of a null entry too) has returned true the
\* buffer is not NULL and is terminated, and a null entry adds nothing.
C7_PushKeepsTerminatedVector ==
    /\ arr.len = Len(pushed)
    /\ \A i \in 1..Len(pushed) : Slot(arr, i - 1) = strdup(pushed[i].s)
    /\ (last.called /\ last.ret) \/ Len(pushed) > 0 =>
          /\ arr.entries # NULL
          /\ Len(arr.entries.slots) = arr.size
          /\ Slot(arr, arr.len) = NULL
          /\ arr.len < arr.size
    /\ arr.entries = NULL => arr.len = 0 /\ arr.size = 0

\* C7 witness: the array has grown twice and a null entry was pushed last.
C7_Witness ==
    /\ arr.size = 2 * ARRAY_GROW
    /\ arr.len >= ARRAY_GROW
    /\ last.called /\ last.ret /\ last.entry = NULL
    /\ pushed[2] = EntryB

\* The names of the plugin calls made so far by the current iteration.
Ops == [i \in DOMAIN calls |-> calls[i].op]

\* C1: in an iteration in which open returned a value other than 0 or 1,
\* open is the only plugin call: neither check_policy nor close is invoked
\* and control goes from the switch straight to the cleanup code.
C1_FatalOpenSkipsCheckAndClose ==
    (Ops # <<>> /\ res \notin {0, 1}) =>
        /\ Ops = <<"open">>
        /\ pc \in {"switch", "done", "return"}

\* C1 witness: an iteration returns after open returned -1 although the
\* plugin has a close function, and the cleanup code has run.
C1_Witness ==
    /\ pc = "return" /\ res = -1 /\ Ops = <<"open">>
    /\ close_fn /\ cleanup # <<>>

\* C2 as stated: in an iteration in which open returned 0 neither close
\* nor check_policy is invoked.
C2_FailedOpenSkipsClose ==
    (Ops # <<>> /\ res = 0) => Ops = <<"open">>

\* C2 amended: in an iteration in which open returned 0, check_policy is
\* not invoked and control goes to the close step: when the iteration
\* reaches the cleanup code the calls made are open followed by close if
\* the plugin has a close function, and open alone if it has none.
C2_FailedOpenSkipsCheckOnly ==
    (Ops # <<>> /\ res = 0) =>
        /\ \A i \in DOMAIN Ops : Ops[i] # "check_policy"
        /\ pc \in {"switch", "close", "done", "return"}
        /\ pc \in {"done", "return"} =>
              Ops = IF close_fn THEN <<"open", "close">> ELSE <<"open">>

\* C2 witness: an iteration returns after open returned 0 and close ran.
C2_Witness ==
    /\ pc = "return" /\ res = 0 /\ Ops = <<"open", "close">>

\* C3: close is invoked at most once per iteration, only when the plugin
\* has a close function and open returned 0 or 1, with arguments (0, 0)
\* and as the last plugin call (after open, and after check_policy when
\* it ran); when the plugin has a close function and open returned 0 or
\* 1, close has been invoked once the cleanup code is reached.
C3_CloseOnceAfterOpenAndCheck ==
    LET closes == {i \in DOMAIN calls : calls[i].op = "close"}
    IN  /\ ~close_fn => closes = {}
        /\ Cardinality(closes) <= 1
        /\ \A i \in closes :
              /\ i = Len(calls) /\ i > 1
              /\ Ops[1] = "open" /\ res \in {0, 1}
              /\ calls[i].exit_status = 0 /\ calls[i].error = 0
        /\ (close_fn /\ Ops # <<>> /\ res \in {0, 1}
                /\ pc \in {"done", "return"}) => Cardinality(closes) = 1

\* C3 witness: open, check_policy and close were called, in this order.
C3_Witness ==
    /\ pc = "return" /\ Ops = <<"open", "check_policy", "close">>

\* C4: when a push made while the collections are built has failed, no
\* plugin call is made in that iteration.
C4_FailedPushAbortsIteration ==
    (\E i \in DOMAIN pushes :
        ~pushes[i].ret /\ pushes[i].entry # StrPtr(DefaultCommand))
    => calls = <<>>

\* C5: when open_data returns NULL the iteration returns at once: no line
\* is read, nothing is pushed, no plugin call is made.
C5_NullStreamReturnsAtOnce ==
    fp.state = "null" =>
        /\ pc = "return"
        /\ line = <<>> /\ pushes = <<>> /\ calls = <<>> /\ cleanup = <<>>
        /\ \A n \in ArrayNames : Array(n) = EmptyArray

\* C5 witness: open_data has returned NULL for a non-empty buffer.
C5_Witness ==
    /\ fp.state = "null" /\ data # <<>> /\ pc = "return"

\* C6: the user record is all zero whenever an iteration returns and
\* whenever one starts.
C6_UserRecordZeroAtReturn ==
    pc \in {"return", "idle"} => sudo_user = ZeroUser

\* C6 witness: the second iteration returns after open and check_policy
\* ran and after the cleanup code dropped a passwd reference the plugin
\* had left in the record.
C6_Witness ==
    /\ pc = "return" /\ iter = 1
    /\ \E i \in DOMAIN Ops : Ops[i] = "check_policy"
    /\ \E i \in DOMAIN cleanup : cleanup[i] = Step("sudo_pw_delref", 1)

\* The table of the keys, by collection.
PluginArgKeys == {
    <<"e", "r", "r", "o", "r", "_", "r", "e", "c", "o", "v", "e", "r", "y", "=">>,
    <<"s", "u", "d", "o", "e", "r", "s", "_", "f", "i", "l", "e", "=">>,
    <<"s", "u", "d", "o", "e", "r", "s", "_", "m", "o", "d", "e", "=">>,
    <<"s", "u", "d", "o", "e", "r", "s", "_", "g", "i", "d", "=">>,
    <<"s", "u", "d", "o", "e", "r", "s", "_", "u", "i", "d", "=">>,
    <<"l", "d", "a", "p", "_", "c", "o", "n", "f", "=">>,
    <<"l", "d", "a", "p", "_", "s", "e", "c", "r", "e", "t", "=">> }

UserInfoKeys == {
    <<"u", "s", "e", "r", "=">>,
    <<"u", "i", "d", "=">>,
    <<"g", "i", "d", "=">>,
    <<"g", "r", "o", "u", "p", "s", "=">>,
    <<"c", "w", "d", "=">>,
    <<"t", "t", "y", "=">>,
    <<"h", "o", "s", "t", "=">>,
    <<"l", "i", "n", "e", "s", "=">>,
    <<"c", "o", "l", "s", "=">>,
    <<"s", "i", "d", "=">>,
    <<"u", "m", "a", "s", "k", "=">>,
    <<"r", "l", "i", "m", "i", "t", "_">> }

HasPrefix(l, k) == Len(l) >= Len(k) /\ SubSeq(l, 1, Len(k)) = k

TableCategory(l) ==
    IF \E k \in PluginArgKeys : HasPrefix(l, k) THEN "plugin_args"
    ELSE IF \E k \in UserInfoKeys : HasPrefix(l, k) THEN "user_info"
    ELSE IF HasPrefix(l, <<"a", "r", "g", "v", "=">>) THEN "argv"
    ELSE IF HasPrefix(l, <<"e", "n", "v", "=">>) THEN "env_add"
    ELSE "settings"

\* C8: every turn of the loop that reads a line which is empty or starts
\* with '#' pushes nothing; every other line is pushed to exactly one
\* collection, the one the table of keys gives for it by prefix: push is
\* called once, on that collection, with the line; the other four
\* collections do not change; and when the push succeeds the line is the
\* new last string of that collection.
C8_LineGoesToTheCollectionOfItsKey ==
    [][(pc = "getdelim" /\ pc' = "getdelim" /\ fp' # fp) =>
        LET l == CStr(line')
            to == TableCategory(l)
        IN  IF l = <<>> \/ l[1] = "#"
            THEN /\ pushes' = pushes
                 /\ \A n \in ArrayNames : Array(n)' = Array(n)
            ELSE /\ Len(pushes') = Len(pushes) + 1
                 /\ SubSeq(pushes', 1, Len(pushes)) = pushes
                 /\ pushes'[Len(pushes')].to = to
                 /\ pushes'[Len(pushes')].entry = StrPtr(line')
                 /\ \A n \in ArrayNames :
                       IF n = to /\ pushes'[Len(pushes')].ret
                       THEN Vec(Array(n))'.strs = Append(Vec(Array(n)).strs, l)
                       ELSE Array(n)' = Array(n)
    ]_vars

\* C8 witness: the lines "user=alice" and "argv=/bin/ls" of the table of
\* examples have been pushed to user_info and argv.
C8_Witness ==
    /\ pc = "getdelim"
    /\ \E i \in DOMAIN pushes :
          /\ pushes[i].to = "user_info" /\ pushes[i].ret
          /\ pushes[i].entry # NULL
          /\ CStr(pushes[i].entry.s) = <<"u", "s", "e", "r", "=", "a", "l", "i", "c", "e">>
    /\ Vec(user_info).strs = <<<<"u", "s", "e", "r", "=", "a", "l", "i", "c", "e">>>>

\* The records of a buffer, newline stripped.
RECURSIVE Records(_)
Records(s) ==
    IF s = <<>> THEN <<>>
    ELSE <<StripNewline(getdelim(s).rec)>> \o Records(getdelim(s).rest)

ArgvLines(s) ==
    Cardinality({i \in DOMAIN Records(s) :
                    HasPrefix(Records(s)[i], <<"a", "r", "g", "v", "=">>)})

\* C9: check_policy is called with argc = 1 and the vector
\* {"/usr/bin/id", NULL} when the input has no line that starts with
\* "argv=", and with argc = k when it has k >= 1 such lines.
C9_DefaultCommandWhenNoArgv ==
    \A i \in DOMAIN calls :
        calls[i].op = "check_policy" =>
            IF ArgvLines(data) = 0
            THEN /\ calls[i].argc = 1
                 /\ calls[i].argv = [ptr |-> "buf", strs |-> <<DefaultCommand>>,
                                     terminated |-> TRUE]
            ELSE calls[i].argc = ArgvLines(data)

\* C10: the settings and user_info vectors handed to open are not NULL
\* and are NULL-terminated.
C10_OpenGetsNonNullVectors ==
    \A i \in DOMAIN calls :
        calls[i].op = "open" =>
            /\ calls[i].settings.ptr = "buf" /\ calls[i].settings.terminated
            /\ calls[i].user_info.ptr = "buf" /\ calls[i].user_info.terminated

\* The number of steps called name taken by the cleanup code so far.
StepCount(name) ==
    Cardinality({i \in DOMAIN cleanup : cleanup[i].step = name})

\* The cleanup code has run exactly once, from its first step to its last.
ResetRanOnce ==
    /\ StepCount("memset_user") = 1
    /\ StepCount("env_init") = 1
    /\ StepCount("memset_array") = Cardinality(ArrayNames)

\* C11 as stated: the cleanup code has run exactly once whenever an
\* iteration returns, on every path, the one where the stream could not be
\* opened included.
C11_ResetOnEveryPath ==
    pc = "return" => ResetRanOnce

\* C11 amended: the cleanup code has run exactly once whenever an
\* iteration returns after open_data gave a stream (open returning 0, 1 or
\* anything else); when open_data returned NULL the iteration returns
\* without running it; and it never runs before the last step.
C11_ResetOnEveryPathWithAStream ==
    /\ pc = "return" =>
          IF fp.state = "null" THEN cleanup = <<>> ELSE ResetRanOnce
    /\ pc # "return" => cleanup = <<>>

\* C11 witness: an iteration returns after open returned -2 and the
\* cleanup code has run.
C11_Witness ==
    /\ pc = "return" /\ res = -2 /\ Ops = <<"open">> /\ ResetRanOnce

\* C12: check_policy is invoked at most once per iteration, as the second
\* plugin call, right after an open that returned 1: never before open,
\* never after close, never when open returned anything but 1.
C12_CheckOnlyAfterSuccessfulOpen ==
    \A i \in DOMAIN Ops :
        Ops[i] = "check_policy" => i = 2 /\ Ops[1] = "open" /\ res = 1

\* C12 witness: check_policy has just been called after open returned 1.
C12_Witness ==
    /\ pc = "close" /\ res = 1 /\ Ops = <<"open", "check_policy">>

\* The reference-counted handles of the user record and the call that
\* drops each of them.
Handles ==
    {<<"pw", "sudo_pw_delref">>, <<"gid_list", "sudo_gidlist_delref">>,
     <<"_runas_pw", "sudo_pw_delref">>, <<"_runas_gr", "sudo_gr_delref">>}

\* Positions of the steps called name in a log.
StepsAt(log, name) == {i \in DOMAIN log : log[i].step = name}

\* Addresses of the blocks owned by the arrays.
ArrayAddrs ==
    UNION {{StrAddr(n, i) : i \in 0..ARRAY_GROW} \cup {BufAddr(n)} :
           n \in ArrayNames}

\* C13: the cleanup code takes its steps in a fixed order: every handle of
\* the user record that is set is dropped before the record is zeroed, the
\* record is zeroed before env_init, every step that releases an array
\* comes after env_init, and no plugin call is made once the cleanup code
\* has begun, so no array is released before the last plugin call returned.
C13_ResetOrder ==
    [][/\ (pc = "done" /\ pc' = "return") =>
             \E z \in StepsAt(cleanup', "memset_user") :
             \E e \in StepsAt(cleanup', "env_init") :
                /\ \A h \in Handles :
                      sudo_user[h[1]] # 0 =>
                         \E i \in 1..(z - 1) :
                            cleanup'[i] = Step(h[2], sudo_user[h[1]])
                /\ \A i \in StepsAt(cleanup', "sudo_pw_delref")
                          \cup StepsAt(cleanup', "sudo_gidlist_delref")
                          \cup StepsAt(cleanup', "sudo_gr_delref") : i < z
                /\ z < e
                /\ \A i \in StepsAt(cleanup', "memset_array") : e < i
                /\ \A i \in StepsAt(cleanup', "free") :
                      cleanup'[i].arg \in ArrayAddrs => e < i
                /\ StepsAt(cleanup', "memset_array") # {}
       /\ Len(calls') > Len(calls) => cleanup' = <<>>
    ]_vars

\* C13 witness: the cleanup code has dropped the four handles and released
\* a string of argv.
C13_Witness ==
    /\ pc = "return"
    /\ StepCount("sudo_pw_delref") = 2
    /\ StepCount("sudo_gidlist_delref") = 1
    /\ StepCount("sudo_gr_delref") = 1
    /\ \E i \in DOMAIN cleanup : cleanup[i] = Step("free", StrAddr("argv", 1))

\* The number of times the cleanup code of log frees the block at addr.
FreeCount(log, addr) ==
    Cardinality({i \in DOMAIN log : log[i] = Step("free", addr)})

\* The addresses the cleanup code of log passes to free, NULL left out.
Freed(log) == {log[i].arg : i \in StepsAt(log, "free")} \ {0}

\* C15: the cleanup code frees no block twice; it frees every string held
\* by the five arrays and every buffer of slots exactly once and leaves
\* each array with entries = NULL, len = 0 and size = 0; it frees nothing
\* for an array whose entries pointer is NULL; a field of the user record
\* that aliases another pointer (shost = host, srunhost = runhost,
\* cmnd = argv.entries[0]) is freed once, not twice.
C15_EveryBlockFreedOnce ==
    [][(pc = "done" /\ pc' = "return") =>
        \E freed \in {Freed(cleanup')} :
            /\ Cardinality(freed) =
                  Cardinality({i \in StepsAt(cleanup', "free") :
                                  cleanup'[i].arg # 0})
            /\ \A n \in ArrayNames :
                  /\ Array(n)' = EmptyArray
                  /\ \A idx \in 0..(Array(n).len - 1) :
                        StrAddr(n, idx) \in freed
                  /\ \A a \in freed :
                        a \in StrAddr(n, 0)..StrAddr(n, ARRAY_GROW)
                            => a < StrAddr(n, Array(n).len)
                  /\ BufAddr(n) \in freed <=> Array(n).entries # NULL
            /\ \A f \in {"host", "runhost", "shost", "srunhost"} :
                  sudo_user[f] # 0 => sudo_user[f] \in freed
            /\ (sudo_user.cmnd # 0 /\ sudo_user.cmnd # ARGV0) =>
                  sudo_user.cmnd \in freed
    ]_vars

\* C15 witness: the cleanup code ran on a record whose short host names
\* alias the long ones and whose command aliases argv.entries[0], and on
\* arrays of which one holds two strings and another was never pushed to.
C15_Witness ==
    /\ pc = "return"
    /\ FreeCount(cleanup, OwnedUser.host) = 1
    /\ FreeCount(cleanup, OwnedUser.shost) = 0
    /\ FreeCount(cleanup, OwnedUser.cmnd) = 0
    /\ FreeCount(cleanup, OwnedUser.tty) = 1
    /\ FreeCount(cleanup, StrAddr("argv", 0)) = 1
    /\ FreeCount(cleanup, StrAddr("argv", 1)) = 1
    /\ FreeCount(cleanup, BufAddr("plugin_args")) = 0

\* The growth test of push for an entry: appending it and writing the
\* terminator does not fit in the capacity of a.
DoesNotFit(a, entry) ==
    IF entry # NULL THEN a.len + 1 >= a.size ELSE a.len >= a.size

\* The capacity is a multiple of 128, a push changes it by +128 or not at
\* all, and the entries held before the push keep their slots.
GrowsByBlocks ==
    /\ arr'.size % ARRAY_GROW = 0
    /\ arr'.size \in {arr.size, arr.size + ARRAY_GROW}
    /\ \A i \in 0..(arr.len - 1) : Slot(arr', i) = Slot(arr, i)

\* C14 as stated: the capacity is always a multiple of 128 and changes
\* only by +128 inside push; a push grows the array if and only if the
\* entry and the terminator do not fit; growth keeps every entry in place.
C14_GrowsIffNoRoom ==
    [][/\ GrowsByBlocks
       /\ arr'.size = arr.size + ARRAY_GROW <=> DoesNotFit(arr, last'.entry)
    ]_vars

\* C14 amended: the capacity is always a multiple of 128 and changes only
\* by +128 inside push; a push that returns true has grown the array if
\* and only if the entry and the terminator did not fit; a push that
\* returns false has not grown it; growth keeps every entry in place.
C14_GrowsIffNoRoomAndSuccess ==
    [][/\ GrowsByBlocks
       /\ arr'.size = arr.size + ARRAY_GROW <=>
             (last'.ret /\ DoesNotFit(arr, last'.entry))
    ]_vars

\* C14 witness: the array has just grown for the second time.
C14_Witness ==
    /\ arr.size = 2 * ARRAY_GROW /\ arr.len = ARRAY_GROW
    /\ last.ret /\ last.entry # NULL

\* C19: a push that returns false leaves the array as it was: entries,
\* every slot, len and size; and the copy it made, if any, has been freed.
C19_FailedPushChangesNothing ==
    [][(last'.called /\ ~last'.ret) =>
          /\ arr' = arr
          /\ pushed' = pushed
          /\ last'.copied => last'.freed
    ]_vars

\* C19 witness: a push on an array with no room left has made its copy,
\* failed to grow the array and freed the copy.
C19_Witness ==
    /\ last.called /\ ~last.ret /\ last.copied /\ last.freed
    /\ arr.len = ARRAY_GROW - 1 /\ arr.size = ARRAY_GROW

\* The record a turn of the reading loop takes from the stream, without
\* its trailing newline.
RecordRead ==
    LET rec == SubSeq(fp.rest, 1, Len(fp.rest) - Len(fp'.rest))
    IN  IF rec # <<>> /\ rec[Len(rec)] = NL
        THEN SubSeq(rec, 1, Len(rec) - 1) ELSE rec

\* A turn of the reading loop that skips or classifies a record.
ReadsARecord == pc = "getdelim" /\ pc' = "getdelim" /\ fp' # fp

\* The record r is skipped, or pushed once and, if the push succeeds,
\* stored as the string s at the end of one collection.
SkippedOrStoredAs(skipped, s) ==
    IF skipped
    THEN /\ pushes' = pushes
         /\ \A n \in ArrayNames : Array(n)' = Array(n)
    ELSE /\ Len(pushes') = Len(pushes) + 1
         /\ LET p == pushes'[Len(pushes')]
            IN  \A n \in ArrayNames :
                    (n = p.to /\ p.ret) =>
                        Vec(Array(n))'.strs = Append(Vec(Array(n)).strs, s)

\* C16 as stated: the string stored for a classified line is the record
\* read, byte for byte, with only the trailing newline removed, whatever
\* bytes the record holds, a zero byte included; and a record is discarded
\* as empty only when it has no bytes after the newline is stripped.
C16_StoredLineIsTheRecord ==
    [][ReadsARecord =>
          SkippedOrStoredAs(RecordRead = <<>> \/ RecordRead[1] = "#",
                            RecordRead)
    ]_vars

\* C16 amended: the string stored for a classified line is the record
\* read, with only the trailing newline removed, up to its first zero
\* byte: byte for byte the record when it holds no zero byte; and a
\* record is discarded as empty when it has no bytes before its first
\* zero byte.
C16_StoredLineIsTheRecordAsCString ==
    [][ReadsARecord =>
          /\ SkippedOrStoredAs(CStr(RecordRead) = <<>>
                                  \/ RecordRead[1] = "#",
                               CStr(RecordRead))
          /\ (\A i \in DOMAIN RecordRead : RecordRead[i] # NUL) =>
                CStr(RecordRead) = RecordRead
    ]_vars

\* C16 witness: the record "uid", zero byte, "=x" has been read and is
\* stored as "uid"; it matches no key.
C16_Witness ==
    /\ pc = "getdelim"
    /\ data = <<"u", "i", "d", NUL, "=", "x", NL>>
    /\ fp.rest = <<>>
    /\ Vec(settings).strs = <<<<"u", "i", "d">>>>

\* The five arrays after the reading loop has run over the buffer s,
\* the k-th push succeeding as the k-th push of this iteration did.
RECURSIVE Rebuild(_, _, _)
Rebuild(s, as, k) ==
    IF s = <<>> THEN as
    ELSE LET g == getdelim(s)
             buf == StripNewline(g.rec)
             to == Classify(buf)
         IN  IF to = "skip" THEN Rebuild(g.rest, as, k)
             ELSE Rebuild(g.rest,
                          [as EXCEPT ![to] = push(@, StrPtr(buf),
                                                  pushes[k].ret,
                                                  pushes[k].ret).arr],
                          k + 1)

\* The arrays before the reading loop: the pushes of NULL to user_info
\* and settings.
BeforeLoop ==
    [n \in ArrayNames |->
        IF n = "user_info"
        THEN push(EmptyArray, NULL, pushes[1].ret, pushes[1].ret).arr
        ELSE IF n = "settings"
        THEN push(EmptyArray, NULL, pushes[2].ret, pushes[2].ret).arr
        ELSE EmptyArray]

Classified(s) ==
    {i \in DOMAIN Records(s) : Classify(Records(s)[i]) # "skip"}

\* C17: when the whole input has been read and its last byte is not a
\* newline, the last record has been decoded and classified like the
\* others, and the five collections are those the same input followed by
\* one newline gives.
C17_MissingLastNewlineChangesNothing ==
    (/\ pc = "open" /\ fp.rest = <<>>
     /\ data # <<>> /\ data[Len(data)] # NL) =>
        /\ Len(pushes) = 2 + Cardinality(Classified(data))
        /\ LET last_rec == Records(data)[Len(Records(data))]
           IN  Classify(last_rec) # "skip" =>
                  /\ pushes[Len(pushes)].entry = StrPtr(last_rec)
                  /\ pushes[Len(pushes)].to = TableCategory(last_rec)
        /\ \A n \in ArrayNames :
              Array(n) = Rebuild(data \o <<NL>>, BeforeLoop, 3)[n]

\* C17 witness: the input "argv=a", newline, "argv=b" with no newline at
\* its end has been read, and argv holds both lines.
C17_Witness ==
    /\ pc = "open" /\ fp.rest = <<>>
    /\ data = <<"a", "r", "g", "v", "=", "a", NL, "a", "r", "g", "v", "=", "b">>
    /\ Vec(argv).strs = << <<"a", "r", "g", "v", "=", "a">>,
                           <<"a", "r", "g", "v", "=", "b">> >>

\* The messages whose type is not info or error, by index from 0.
NotInfoOrError ==
    {i \in 0..(Len(msgs) - 1) :
        Low8(msgs[i + 1].msg_type) \notin
            {SUDO_CONV_ERROR_MSG, SUDO_CONV_INFO_MSG}}

\* The stream a message type goes to.
StreamOf(t) ==
    IF Low8(t) = SUDO_CONV_INFO_MSG THEN "stdout" ELSE "stderr"

\* The texts of the messages of a stream, each followed by a newline.
RECURSIVE TextFor(_, _)
TextFor(ms, to) ==
    IF ms = <<>> THEN <<>>
    ELSE LET m == Head(ms)
         IN  (IF StreamOf(m.msg_type) = to /\ m.msg # NULL
                 /\ strlen(m.msg) # 0
              THEN CStr(m.msg.s) \o <<NL>> ELSE <<>>) \o TextFor(Tail(ms), to)

\* C18: the callback never writes to a reply slot; when the array has a
\* message whose type (low 8 bits) is a prompt or is not info or error it
\* returns -1, and no later than at the first such message; it returns 0
\* only when every message is of info or error type and every write
\* succeeded (whole text and newline), info on standard output and error
\* on standard error.
C18_NeverSuppliesInput ==
    conv_pc = "returned" =>
        /\ \A i \in DOMAIN replies : replies[i] = "unset"
        /\ NotInfoOrError # {} =>
              /\ conv_ret = -1
              /\ \A i \in NotInfoOrError : conv_n <= i
        /\ conv_ret = 0 =>
              /\ NotInfoOrError = {}
              /\ \A i \in DOMAIN written :
                    /\ written[i].fwrite = written[i].len
                    /\ written[i].fputc
                    /\ written[i].to =
                          StreamOf(msgs[written[i].n + 1].msg_type)
              /\ stdout = TextFor(msgs, "stdout")
              /\ stderr = TextFor(msgs, "stderr")

====
